---- MODULE Spec2Model ----
(***************************************************************************)
(* Model of src/01_data_cleaning.py: the screening-data cleaner.  The      *)
(* script is a straight-line batch job; each numbered step of the script   *)
(* is one action, and pc is the position of the script.  The four report   *)
(* scripts 02..05 that read the cleaned file are one action each.          *)
(*                                                                         *)
(* A cell of the data frame is a record [k, s, n]:                         *)
(*   k = "nan"  : NaN / NaT / None                                         *)
(*   k = "str"  : a Python str, s its text                                 *)
(*   k = "num"  : an int or float, n its value (1 and 1.0 are equal and    *)
(*                hash alike in every lookup the script makes)             *)
(*   k = "date" : a Timestamp, s its ISO form YYYY-MM-DD                   *)
(***************************************************************************)
EXTENDS Integers, Sequences, FiniteSets, TLC

\* ------------------------------------------------------------------ bounds
MaxRows == 2
MaxRuns == 2
MaxRecords == 3

\* ------------------------------------------------------------- cell values
NaN == [k |-> "nan", s |-> "", n |-> 0]
Str(x) == [k |-> "str", s |-> x, n |-> 0]
Num(i) == [k |-> "num", s |-> "", n |-> i]
Date(d) == [k |-> "date", s |-> d, n |-> 0]

isnull(v) == v.k = "nan"
notna(v) == v.k # "nan"

Columns == {"patient_id", "screening_type", "screening_completed_ind",
            "screening_date", "latest_call_date", "reached_ind"}

\* ------------------------------------------------- configuration constants
\* Variant: 'A1C' is on the allow-list.
VALID_SCREENING_TYPES_with_A1C == {"BCS", "COL", "EED", "CBP", "OMW", "A1C"}

VALID_SCREENING_TYPES == {"BCS", "COL", "EED", "CBP", "OMW"}

\* ------------------------------------------------------ raw CSV text cells
\* The texts a cell of the raw file may hold ("" is an empty field).
PatientIdTexts == {"", "P1"}
ScreeningTypeTexts == {"BCS", " col ", "a1c", " a1c ", ""}
CompletedTexts == {"", "0", "1", "1.0", "s", "S", "1.00", "2", "x"}
DateTexts == {"", "2025-03-01", "N/A", "03/01/2025"}
CallDateTexts == {"", "2025-03-01", "N/A"}
ReachedTexts == {"", "0", "1", "1.0", "1 and reached", "1.00", "0.00", "2", "x"}

BaseRow ==
    [patient_id |-> "P1", screening_type |-> "BCS",
     screening_completed_ind |-> "1", screening_date |-> "2025-03-01",
     latest_call_date |-> "2025-03-01", reached_ind |-> "1"]

\* Rows of the raw file: the base row varied in one field, or in the two
\* fields a step of the cleaner relates.
RawRows ==
    {[BaseRow EXCEPT !.patient_id = p, !.screening_type = t] :
        p \in PatientIdTexts, t \in ScreeningTypeTexts}
    \cup {[BaseRow EXCEPT !.screening_completed_ind = c] : c \in CompletedTexts}
    \cup {[BaseRow EXCEPT !.screening_date = d] : d \in DateTexts}
    \cup {[BaseRow EXCEPT !.reached_ind = r, !.latest_call_date = d] :
        r \in ReachedTexts, d \in CallDateTexts}

RawTables == UNION {[1..n -> RawRows] : n \in 0..MaxRows}

\* Rows of the raw files the reports are studied on: two patients with the
\* indicator texts that give each completion and contact label, a row
\* without patient id and a row without screening type.
IndicatorTexts == {"1", "0", ""}

ReportRawRows ==
    {[BaseRow EXCEPT !.screening_completed_ind = c, !.reached_ind = r] :
        c \in IndicatorTexts, r \in IndicatorTexts}
    \cup {[BaseRow EXCEPT !.patient_id = "P2", !.screening_completed_ind = x[1],
                          !.reached_ind = x[2]] :
              x \in {<<"1", "1">>, <<"0", "">>, <<"", "0">>}}
    \cup {[BaseRow EXCEPT !.patient_id = ""], [BaseRow EXCEPT !.screening_type = ""]}

ReportRawTables == UNION {[1..n -> ReportRawRows] : n \in 0..MaxRecords}

\* ---------------------------------------------------- text conversions
\* Texts that parse as a number (the CSV reader's type inference and
\* pd.to_numeric agree on these), with their values.
NumericTexts ==
    ("0" :> 0) @@ ("0.0" :> 0) @@ ("1" :> 1) @@ ("1.0" :> 1) @@
    ("1.00" :> 1) @@ ("0.00" :> 0) @@ ("2" :> 2)

\* Texts pd.read_csv reads as NaN (its default na_values).
NaTexts == {"", "N/A"}

\* Variant: the text is not trimmed.
strip_not_applied(x) == x

\* str.strip(): leading and trailing whitespace removed.
strip(x) ==
    CASE x = " col " -> "col"
      [] x = " a1c " -> "a1c"
      [] OTHER -> x

\* str.upper(): lower-case letters replaced by upper-case ones.
upper(x) ==
    CASE x = "col" -> "COL"
      [] x = "a1c" -> "A1C"
      [] x = " col " -> " COL "
      [] x = " a1c " -> " A1C "
      [] x = "x" -> "X"
      [] x = "s" -> "S"
      [] x = "completed" -> "COMPLETED"
      [] x = "not completed" -> "NOT COMPLETED"
      [] x = "not eligible" -> "NOT ELIGIBLE"
      [] x = "reached" -> "REACHED"
      [] x = "not reached" -> "NOT REACHED"
      [] x = "not called" -> "NOT CALLED"
      [] x = "1 and reached" -> "1 AND REACHED"
      [] OTHER -> x

\* strptime with format '%Y-%m-%d': the texts that are calendar dates.
StrictDates == {"2025-03-01"}

\* The text DataFrame.to_csv writes for a cell.
NumText(i) ==
    CASE i = 0 -> "0"
      [] i = 1 -> "1"
      [] OTHER -> "2"

\* Variant: dates written in month/day/year form.
to_csv_cell_us_dates(v) ==
    CASE v.k = "nan" -> ""
      [] v.k = "num" -> NumText(v.n)
      [] v.k = "date" /\ v.s = "2025-03-01" -> "03/01/2025"
      [] OTHER -> v.s

to_csv_cell(v) ==
    CASE v.k = "nan" -> ""
      [] v.k = "num" -> NumText(v.n)
      [] OTHER -> v.s

\* ------------------------------------------------------------ pd.read_csv
\* A column is numeric when every field is empty, an NA text or a number
\* text and the file has at least one row; otherwise it is an object column
\* holding the texts as they are.
NumericColumn(file, c) ==
    /\ Len(file) > 0
    /\ \A i \in 1..Len(file) :
          file[i][c] \in NaTexts \cup DOMAIN NumericTexts

read_cell(file, i, c) ==
    LET x == file[i][c] IN
    IF x \in NaTexts THEN NaN
    ELSE IF NumericColumn(file, c) THEN Num(NumericTexts[x])
    ELSE Str(x)

read_csv(file) ==
    [i \in 1..Len(file) |->
        [idx |-> i,
         patient_id |-> read_cell(file, i, "patient_id"),
         screening_type |-> read_cell(file, i, "screening_type"),
         screening_completed_ind |-> read_cell(file, i, "screening_completed_ind"),
         screening_date |-> read_cell(file, i, "screening_date"),
         latest_call_date |-> read_cell(file, i, "latest_call_date"),
         reached_ind |-> read_cell(file, i, "reached_ind")]]

\* DataFrame.to_csv(index=False): the index is not written.
to_csv(d) ==
    [i \in 1..Len(d) |->
        [patient_id |-> to_csv_cell(d[i].patient_id),
         screening_type |-> to_csv_cell(d[i].screening_type),
         screening_completed_ind |-> to_csv_cell(d[i].screening_completed_ind),
         screening_date |-> to_csv_cell(d[i].screening_date),
         latest_call_date |-> to_csv_cell(d[i].latest_call_date),
         reached_ind |-> to_csv_cell(d[i].reached_ind)]]

\* dtype of a column of the frame: object when it holds a str or the frame
\* is empty, else a numeric or datetime dtype.
ObjectColumn(d, c) ==
    \/ Len(d) = 0
    \/ \E i \in 1..Len(d) : d[i][c].k = "str"

\* ------------------------------------------------ element-wise pandas steps
\* Series.str.strip().str.upper(): NaN stays NaN.
str_strip_upper(v) == IF v.k = "str" THEN Str(upper(strip(v.s))) ELSE v

\* Series.isin(VALID_SCREENING_TYPES)
isin_valid(v) == v.k = "str" /\ v.s \in VALID_SCREENING_TYPES

\* Variant: the filtered frame is not assigned back.
filter_not_applied(d) == d

\* Variant: rows without a patient id are dropped as well.
filter_valid_dropna(d) ==
    SelectSeq(d, LAMBDA r : isin_valid(r.screening_type) /\ notna(r.patient_id))

\* Variant: the retained rows come out in reverse order.
filter_valid_reversed(d) ==
    LET s == SelectSeq(d, LAMBDA r : isin_valid(r.screening_type))
    IN [i \in 1..Len(s) |-> s[Len(s) + 1 - i]]

\* df[df['screening_type'].isin(VALID_SCREENING_TYPES)]: rows keep their
\* index label and their relative order.
filter_valid(d) == SelectSeq(d, LAMBDA r : isin_valid(r.screening_type))

\* Variant: the 's' / 'S' entries are missing.
completion_mapping_no_s ==
    (Str("0") :> 0) @@ (Str("0.0") :> 0) @@ (Num(0) :> 0) @@
    (Str("1") :> 1) @@ (Str("1.0") :> 1) @@ (Num(1) :> 1)

completion_mapping ==
    (Str("0") :> 0) @@ (Str("0.0") :> 0) @@ (Num(0) :> 0) @@
    (Str("1") :> 1) @@ (Str("1.0") :> 1) @@ (Num(1) :> 1) @@
    (Str("s") :> 1) @@ (Str("S") :> 1)

\* Variant: the '1 and reached' entry is missing.
reach_mapping_no_synonym ==
    (Str("0") :> 0) @@ (Str("0.0") :> 0) @@ (Num(0) :> 0) @@
    (Str("1") :> 1) @@ (Str("1.0") :> 1) @@ (Num(1) :> 1)

reach_mapping ==
    (Str("0") :> 0) @@ (Str("0.0") :> 0) @@ (Num(0) :> 0) @@
    (Str("1") :> 1) @@ (Str("1.0") :> 1) @@ (Num(1) :> 1) @@
    (Str("1 and reached") :> 1)

\* Variant: the two labels are exchanged.
completion_labels_swapped == (0 :> "completed") @@ (1 :> "not completed")

completion_labels == (0 :> "not completed") @@ (1 :> "completed")
reach_labels == (0 :> "not reached") @@ (1 :> "reached")

\* Series.replace(mapping): a value equal to a key becomes the key's value.
replace(v, mapping) == IF v \in DOMAIN mapping THEN Num(mapping[v]) ELSE v

\* pd.to_numeric(errors='coerce'): numbers stay, number texts are parsed,
\* everything else becomes NaN.
to_numeric(v) ==
    CASE v.k = "num" -> v
      [] v.k = "str" /\ v.s \in DOMAIN NumericTexts -> Num(NumericTexts[v.s])
      [] OTHER -> NaN

\* Series.map(labels): a value that is no key becomes NaN.
map_labels(v, labels) ==
    IF v.k = "num" /\ v.n \in DOMAIN labels THEN Str(labels[v.n]) ELSE NaN

\* Variant: the fill is not assigned back.
fillna_not_applied(v, x) == v

fillna(v, x) == IF isnull(v) THEN Str(x) ELSE v

standardize_completed_ind(v) ==
    fillna(map_labels(to_numeric(replace(v, completion_mapping)),
                      completion_labels), "not eligible")

\* Variant: the numbers are not turned into labels.
standardize_reached_ind_numeric(v) == to_numeric(replace(v, reach_mapping))

standardize_reached_ind(v) ==
    fillna(map_labels(to_numeric(replace(v, reach_mapping)),
                      reach_labels), "not called")

\* Variant: errors='ignore', an unparsable text is left as it is.
to_datetime_errors_ignore(v) ==
    CASE v.k = "date" -> v
      [] v.k = "str" /\ v.s \in StrictDates -> Date(v.s)
      [] OTHER -> v

\* Variant: no format is given, a month/day/year text is parsed as well.
to_datetime_any_format(v) ==
    CASE v.k = "date" -> v
      [] v.k = "str" /\ v.s \in StrictDates -> Date(v.s)
      [] v.k = "str" /\ v.s = "03/01/2025" -> Date("2025-03-01")
      [] OTHER -> NaN

\* pd.to_datetime(errors='coerce', format='%Y-%m-%d')
to_datetime(v) ==
    CASE v.k = "date" -> v
      [] v.k = "str" /\ v.s \in StrictDates -> Date(v.s)
      [] OTHER -> NaN

\* Variant: the notna() conjunct is missing.
inconsistent_any_not_called(r) == r.reached_ind = Str("not called")

\* (df['reached_ind'] == 'not called') & (df['latest_call_date'].notna())
inconsistent(r) == r.reached_ind = Str("not called") /\ notna(r.latest_call_date)

\* inconsistencies.sum()
count_inconsistent(d) == Cardinality({i \in 1..Len(d) : inconsistent(d[i])})

\* df['patient_id'].isnull().sum()
count_null_ids(d) == Cardinality({i \in 1..Len(d) : isnull(d[i].patient_id)})

\* Variant: the repair is not made.
consistency_not_enforced(d) == d

\* Variant: the date of every row that is not 'reached' is cleared.
enforce_consistency_not_reached(d) ==
    [i \in 1..Len(d) |->
        IF d[i].reached_ind # Str("reached")
        THEN [d[i] EXCEPT !.latest_call_date = NaN]
        ELSE d[i]]

\* Variant: the assignment names no column, the whole row is cleared.
enforce_consistency_whole_row(d) ==
    IF count_inconsistent(d) > 0
    THEN [i \in 1..Len(d) |->
            IF d[i].reached_ind = Str("not called")
            THEN [d[i] EXCEPT !.patient_id = NaN, !.screening_type = NaN,
                              !.screening_completed_ind = NaN,
                              !.screening_date = NaN, !.latest_call_date = NaN,
                              !.reached_ind = NaN]
            ELSE d[i]]
    ELSE d

\* df.loc[df['reached_ind'] == 'not called', 'latest_call_date'] = pd.NaT,
\* executed when at least one row is inconsistent.
enforce_consistency(d) ==
    IF count_inconsistent(d) > 0
    THEN [i \in 1..Len(d) |->
            IF d[i].reached_ind = Str("not called")
            THEN [d[i] EXCEPT !.latest_call_date = NaN]
            ELSE d[i]]
    ELSE d

\* Variant: records_before is taken after the filter.
records_removed_stale(before, d) == Len(d) - Len(d)

\* records_removed = records_before - len(df)
records_removed_of(before, d) == before - Len(d)

\* Variant: null values are left out of the rejected set.
invalid_types_dropna(d) ==
    {d[i].screening_type :
        i \in {j \in 1..Len(d) : /\ ~isin_valid(d[j].screening_type)
                                 /\ notna(d[j].screening_type)}}

\* df[~df['screening_type'].isin(VALID_SCREENING_TYPES)]['screening_type']
\*     .unique(): the distinct values of the rejected rows, NaN included.
invalid_types_of(d) ==
    {d[i].screening_type : i \in {j \in 1..Len(d) : ~isin_valid(d[j].screening_type)}}

\* The header of the raw export.
RawHeader ==
    <<"patient_id", "screening_type", "screening_completed_ind",
      "screening_date", "latest_call_date", "reached_ind">>

\* Variant: the assignment goes to a new column.
set_column_appended(cols, c) == Append(cols, c)

\* df[c] = ...: an existing column keeps its place, a new one is appended.
set_column(cols, c) ==
    IF \E k \in 1..Len(cols) : cols[k] = c THEN cols ELSE Append(cols, c)

\* The four report scripts.
Reports == {"q1", "q2", "q3", "q4"}

\* The labels the reports compare with.
REACHED == "reached"
NOT_REACHED == "not reached"
NOT_CALLED == "not called"
NOT_ELIGIBLE == "not eligible"
COMPLETED == "completed"

\* df_eligible = df[df['screening_completed_ind'] != 'not eligible']
eligible(d) == SelectSeq(d, LAMBDA r : r.screening_completed_ind # Str(NOT_ELIGIBLE))

\* A group of the label exists in groupby('reached_ind').
has_reach_group(d, l) == \E i \in 1..Len(d) : d[i].reached_ind = Str(l)

\* 02_q1_reach_analysis.py: the key metrics are taken with .values[0] from
\* the groups 'reached', 'not reached' and 'not called' of all records.
q1_metrics_ok(d) ==
    \A l \in {REACHED, NOT_REACHED, NOT_CALLED} : has_reach_group(d, l)

\* 03_q2_compliance_eligibility.py: idxmax / idxmin need at least one
\* patient with an eligible record (groupby drops null patient ids).
q2_metrics_ok(d) ==
    LET e == eligible(d) IN
    \E i \in 1..Len(e) : notna(e[i].patient_id)

\* 04_q3_impact_of_contact.py: as Q1, over the eligible records.
q3_metrics_ok(d) ==
    LET e == eligible(d) IN
    \A l \in {REACHED, NOT_REACHED, NOT_CALLED} : has_reach_group(e, l)

\* 05_q4_optimization_strategy.py: the pivot needs the columns 'reached' and
\* 'not reached' of the eligible records.
q4_metrics_ok(d) ==
    LET e == eligible(d) IN
    \A l \in {REACHED, NOT_REACHED} : has_reach_group(e, l)

\* Series.value_counts(): the number of records per text of the column,
\* nulls left out.
value_counts(d, c) ==
    [l \in {d[i][c].s : i \in {j \in 1..Len(d) : d[j][c].k = "str"}} |->
        Cardinality({i \in 1..Len(d) : d[i][c] = Str(l)})]

\* df[c].notna().sum()
notna_sum(d, c) == Cardinality({i \in 1..Len(d) : notna(d[i][c])})

\* Variant: the present values are counted.
isnull_sum_counts_present(d) ==
    [c \in Columns |-> Cardinality({i \in 1..Len(d) : notna(d[i][c])})]

\* df.isnull().sum(): the number of null cells per column.
isnull_sum(d) ==
    [c \in Columns |-> Cardinality({i \in 1..Len(d) : isnull(d[i][c])})]

\* The number printed as 'Original records' by the summary.
ORIGINAL_RECORDS == 1988

\* dtype of a date column is datetime64[ns]: it holds Timestamps and NaT.
DatetimeColumn(d, c) == \A i \in 1..Len(d) : d[i][c].k \in {"date", "nan"}

\* The results of the four validation checks of STEP 5.
validation_checks(d) ==
    [types |-> \A i \in 1..Len(d) : isin_valid(d[i].screening_type),
     indicators |->
         /\ \A i \in 1..Len(d) :
               d[i].screening_completed_ind
                   \in {Str("completed"), Str("not completed"), Str("not eligible")}
         /\ \A i \in 1..Len(d) :
               d[i].reached_ind
                   \in {Str("reached"), Str("not reached"), Str("not called")},
     consistency |-> count_inconsistent(d) = 0,
     dates |-> /\ DatetimeColumn(d, "screening_date")
               /\ DatetimeColumn(d, "latest_call_date")]

\* ------------------------------------------------------ report aggregates
\* The keys of groupby('patient_id'): null ids form no group.
patient_ids(d) == {d[i].patient_id : i \in 1..Len(d)} \ {NaN}

\* ('screening_type', 'count') of a patient's group.
group_count(d, p) ==
    Cardinality({i \in 1..Len(d) : d[i].patient_id = p /\ notna(d[i].screening_type)})

\* (x == 'completed').sum() of a patient's group.
group_completed(d, p) ==
    Cardinality({i \in 1..Len(d) :
        d[i].patient_id = p /\ d[i].screening_completed_ind = Str(COMPLETED)})

\* (completed / total * 100).round(2), in hundredths of a percent.
compliance_rate(completed, total) ==
    LET q == (completed * 10000) \div total
        r == (completed * 10000) % total
    IN IF 2 * r > total THEN q + 1 ELSE q

\* Variant: the patients are grouped over all records, eligible or not.
q2_patient_metrics_all_records(d) ==
    LET e == eligible(d) IN
    [p \in patient_ids(d) |->
        [total_eligible_screenings |-> group_count(e, p),
         completed_screenings |-> group_completed(e, p)]]

\* patient_metrics of 03_q2_compliance_eligibility.py
q2_patient_metrics(d) ==
    LET e == eligible(d) IN
    [p \in patient_ids(e) |->
        [total_eligible_screenings |-> group_count(e, p),
         completed_screenings |-> group_completed(e, p),
         compliance_rate |-> compliance_rate(group_completed(e, p),
                                             group_count(e, p))]]

\* compliance_by_eligibility.total_patients: patients per number of
\* eligible screenings.
q2_total_patients(pm) ==
    [n \in {pm[p].total_eligible_screenings : p \in DOMAIN pm} |->
        Cardinality({p \in DOMAIN pm : pm[p].total_eligible_screenings = n})]

\* The sort order of the contact labels.
label_rank == ("not called" :> 1) @@ ("not reached" :> 2) @@ ("reached" :> 3)

\* Number of a patient's records with the contact label l.
label_count(d, p, l) ==
    Cardinality({i \in 1..Len(d) : d[i].patient_id = p /\ d[i].reached_ind = Str(l)})

\* Variant: the label of the patient's first record.
reached_status_first_record(d, p) ==
    d[CHOOSE i \in 1..Len(d) :
          /\ d[i].patient_id = p
          /\ \A j \in 1..Len(d) : d[j].patient_id = p => i <= j].reached_ind.s

\* x.mode()[0]: Series.mode() returns the most frequent values sorted, so
\* its first element is the smallest of them.
reached_status(d, p) ==
    LET modes == {l \in DOMAIN label_rank :
                     \A m \in DOMAIN label_rank :
                         label_count(d, p, l) >= label_count(d, p, m)}
    IN CHOOSE l \in modes : \A m \in modes : label_rank[l] <= label_rank[m]

\* patient_analysis of 05_q4_optimization_strategy.py
q4_patient_analysis(d) ==
    LET e == eligible(d) IN
    [p \in patient_ids(e) |->
        [total_eligible_screenings |-> group_count(e, p),
         completed_screenings |-> group_completed(e, p),
         reached_status |-> reached_status(e, p),
         compliance_rate |-> compliance_rate(group_completed(e, p),
                                             group_count(e, p))]]

\* priority_matrix.patient_count: patients per (reached_status,
\* total_eligible_screenings) segment.
q4_priority_matrix(pa) ==
    [k \in {<<pa[p].reached_status, pa[p].total_eligible_screenings>> :
                p \in DOMAIN pa} |->
        Cardinality({p \in DOMAIN pa :
            <<pa[p].reached_status, pa[p].total_eligible_screenings>> = k})]

\* ------------------------------------------------------------------ state
VARIABLES
    pc,               \* the step the script executes next
    run,              \* number of the current run of the script
    rawExists,        \* os.path.exists(RAW_DATA_PATH)
    rawFile,          \* rows of the file at RAW_DATA_PATH
    df,               \* the data frame
    initial_nulls,    \* null patient ids counted by step 1
    invalid_types,    \* distinct rejected screening types
    records_removed,  \* rows dropped by the screening-type filter
    inconsistencies,  \* rows found 'not called' with a call date
    outDirExists,     \* os.path.exists(output_dir)
    outExists,        \* the file at PROCESSED_DATA_PATH exists
    outFile,          \* rows of the file at PROCESSED_DATA_PATH
    rawHeader,        \* header line of the file at RAW_DATA_PATH
    columns,          \* df.columns
    outHeader,        \* header line of the file at PROCESSED_DATA_PATH
    steps,            \* the steps of STEP 2 this run has finished, in order
    writes,           \* number of times this run has written the output file
    viz,              \* per report: not run, aborted, or charts saved
    prev,             \* results of the previous run on the same raw file
    completion_dist,  \* value counts of screening_completed_ind, step 2.3
    reach_dist,       \* value counts of reached_ind, step 2.6
    valid_dates,      \* parsed screening dates, step 2.4
    valid_call_dates, \* parsed call dates, step 2.5
    summary,          \* the three numbers of 'Records Summary', STEP 4
    null_counts,      \* null cells per column, STEP 4
    checks,           \* the results of the four checks of STEP 5
    checks_passed,    \* checks_passed of STEP 5
    vizDir,           \* per report: its OUTPUT_DIR exists
    patient_metrics,  \* Q2: patient_metrics
    total_patients,   \* Q2: compliance_by_eligibility.total_patients
    patient_analysis, \* Q4: patient_analysis
    priority_matrix   \* Q4: priority_matrix.patient_count

vars == <<pc, run, rawExists, rawFile, df, initial_nulls, invalid_types,
          records_removed, inconsistencies, outDirExists, outExists, outFile,
          rawHeader, columns, outHeader, steps, writes, viz, prev,
          completion_dist, reach_dist, valid_dates, valid_call_dates,
          summary, null_counts, checks, checks_passed,
          vizDir, patient_metrics, total_patients, patient_analysis,
          priority_matrix>>

files == <<rawExists, rawFile, outDirExists, outExists, outFile>>
report == <<initial_nulls, invalid_types, records_removed, inconsistencies>>
headers == <<rawHeader, outHeader>>
distributions == <<completion_dist, reach_dist, valid_dates, valid_call_dates>>
quality == <<summary, null_counts, checks, checks_passed>>
cleaner == <<pc, run, df, report, columns, steps, writes, distributions, quality>>
metrics == <<vizDir, patient_metrics, total_patients, patient_analysis,
             priority_matrix>>

\* A series or table without entries.
Empty == [x \in {} |-> 0]

\* What a run holds before its steps have computed anything.
NoDistributions ==
    /\ completion_dist = Empty
    /\ reach_dist = Empty
    /\ valid_dates = 0
    /\ valid_call_dates = 0

NoQuality ==
    /\ summary = [original |-> 0, removed |-> 0, final |-> 0]
    /\ null_counts = Empty
    /\ checks = [types |-> TRUE, indicators |-> TRUE, consistency |-> TRUE,
                 dates |-> TRUE]
    /\ checks_passed = TRUE

NoMetrics ==
    /\ vizDir = [q \in Reports |-> FALSE]
    /\ patient_metrics = Empty
    /\ total_patients = Empty
    /\ patient_analysis = Empty
    /\ priority_matrix = Empty

Init ==
    /\ pc = "load"
    /\ run = 1
    /\ rawExists \in BOOLEAN
    /\ rawFile \in RawTables
    /\ (~rawExists => rawFile = <<>>)
    /\ df = <<>>
    /\ initial_nulls = 0
    /\ invalid_types = {}
    /\ records_removed = 0
    /\ inconsistencies = 0
    /\ outDirExists = FALSE
    /\ outExists = FALSE
    /\ outFile = <<>>
    /\ rawHeader = RawHeader
    /\ columns = <<>>
    /\ outHeader = <<>>
    /\ steps = <<>>
    /\ writes = 0
    /\ viz = [q \in Reports |-> "none"]
    /\ prev = {}
    /\ NoDistributions
    /\ NoQuality
    /\ NoMetrics

\* 1. LOAD RAW DATA, file missing: FileNotFoundError
LoadMissing ==
    /\ pc = "load"
    /\ ~rawExists
    /\ pc' = "aborted"
    /\ UNCHANGED <<run, df, files, report, headers, columns, steps, writes, viz, prev>>
    /\ UNCHANGED <<distributions, quality, metrics>>

\* Variant: the existence check is missing.
Load_unchecked ==
    /\ pc = "load"
    /\ df' = read_csv(rawFile)
    /\ columns' = rawHeader
    /\ pc' = "patient_id"
    /\ UNCHANGED <<run, files, report, headers, steps, writes, viz, prev>>
    /\ UNCHANGED <<distributions, quality, metrics>>

\* 1. LOAD RAW DATA
Load ==
    /\ pc = "load"
    /\ rawExists
    /\ df' = read_csv(rawFile)
    /\ columns' = rawHeader
    /\ pc' = "patient_id"
    /\ UNCHANGED <<run, files, report, headers, steps, writes, viz, prev>>
    /\ UNCHANGED <<distributions, quality, metrics>>

\* 2.1 Patient ID Validation: nulls are counted, nothing is dropped
ValidatePatientId ==
    /\ pc = "patient_id"
    /\ initial_nulls' = count_null_ids(df)
    /\ steps' = Append(steps, "patient_id")
    /\ pc' = "screening_type"
    /\ UNCHANGED <<run, df, files, invalid_types, records_removed, inconsistencies,
                   headers, columns, writes, viz, prev>>
    /\ UNCHANGED <<distributions, quality, metrics>>

\* 2.2 Screening Type Validation on a column that is not of object dtype:
\* the .str accessor raises AttributeError
CleanScreeningTypeFails ==
    /\ pc = "screening_type"
    /\ ~ObjectColumn(df, "screening_type")
    /\ pc' = "aborted"
    /\ UNCHANGED <<run, df, files, report, headers, columns, steps, writes, viz, prev>>
    /\ UNCHANGED <<distributions, quality, metrics>>

\* 2.2 Screening Type Validation
CleanScreeningType ==
    /\ pc = "screening_type"
    /\ ObjectColumn(df, "screening_type")
    /\ LET d1 == [i \in 1..Len(df) |->
                    [df[i] EXCEPT !.screening_type = str_strip_upper(@)]]
           d2 == filter_valid(d1)
       IN /\ invalid_types' = invalid_types_of(d1)
          /\ df' = d2
          /\ records_removed' = records_removed_of(Len(d1), d2)
    /\ columns' = set_column(columns, "screening_type")
    /\ steps' = Append(steps, "screening_type")
    /\ pc' = "completed_ind"
    /\ UNCHANGED <<run, files, initial_nulls, inconsistencies, headers, writes, viz, prev>>
    /\ UNCHANGED <<distributions, quality, metrics>>

\* 2.3 Screening Completion Indicator
StandardizeCompleted ==
    /\ pc = "completed_ind"
    /\ df' = [i \in 1..Len(df) |->
                [df[i] EXCEPT !.screening_completed_ind =
                                  standardize_completed_ind(@)]]
    /\ columns' = set_column(columns, "screening_completed_ind")
    /\ steps' = Append(steps, "completed_ind")
    /\ pc' = "screening_date"
    /\ UNCHANGED <<run, files, report, headers, writes, viz, prev>>
    /\ completion_dist' = value_counts(df', "screening_completed_ind")
    /\ UNCHANGED <<reach_dist, valid_dates, valid_call_dates, quality, metrics>>

\* 2.4 Screening Date
ConvertScreeningDate ==
    /\ pc = "screening_date"
    /\ df' = [i \in 1..Len(df) |->
                [df[i] EXCEPT !.screening_date = to_datetime(@)]]
    /\ columns' = set_column(columns, "screening_date")
    /\ steps' = Append(steps, "screening_date")
    /\ pc' = "latest_call_date"
    /\ UNCHANGED <<run, files, report, headers, writes, viz, prev>>
    /\ valid_dates' = notna_sum(df', "screening_date")
    /\ UNCHANGED <<completion_dist, reach_dist, valid_call_dates, quality, metrics>>

\* Variant: the reached indicator is not standardized before the repair.
ConvertCallDate_then_repair ==
    /\ pc = "latest_call_date"
    /\ df' = [i \in 1..Len(df) |->
                [df[i] EXCEPT !.latest_call_date = to_datetime(@)]]
    /\ columns' = set_column(columns, "latest_call_date")
    /\ steps' = Append(steps, "latest_call_date")
    /\ pc' = "consistency"
    /\ UNCHANGED <<run, files, report, headers, writes, viz, prev>>
    /\ valid_call_dates' = notna_sum(df', "latest_call_date")
    /\ UNCHANGED <<completion_dist, reach_dist, valid_dates, quality, metrics>>

\* 2.5 Latest Call Date
ConvertCallDate ==
    /\ pc = "latest_call_date"
    /\ df' = [i \in 1..Len(df) |->
                [df[i] EXCEPT !.latest_call_date = to_datetime(@)]]
    /\ columns' = set_column(columns, "latest_call_date")
    /\ steps' = Append(steps, "latest_call_date")
    /\ pc' = "reached_ind"
    /\ UNCHANGED <<run, files, report, headers, writes, viz, prev>>
    /\ valid_call_dates' = notna_sum(df', "latest_call_date")
    /\ UNCHANGED <<completion_dist, reach_dist, valid_dates, quality, metrics>>

\* 2.6 Reached Indicator
StandardizeReached ==
    /\ pc = "reached_ind"
    /\ df' = [i \in 1..Len(df) |->
                [df[i] EXCEPT !.reached_ind = standardize_reached_ind(@)]]
    /\ columns' = set_column(columns, "reached_ind")
    /\ steps' = Append(steps, "reached_ind")
    /\ pc' = "consistency"
    /\ UNCHANGED <<run, files, report, headers, writes, viz, prev>>
    /\ reach_dist' = value_counts(df', "reached_ind")
    /\ UNCHANGED <<completion_dist, valid_dates, valid_call_dates, quality, metrics>>

\* 2.6 Enforce logical consistency
EnforceConsistency ==
    /\ pc = "consistency"
    /\ inconsistencies' = count_inconsistent(df)
    /\ df' = enforce_consistency(df)
    /\ columns' = set_column(columns, "latest_call_date")
    /\ steps' = Append(steps, "consistency")
    /\ pc' = "save"
    /\ UNCHANGED <<run, files, initial_nulls, invalid_types, records_removed,
                   headers, writes, viz, prev>>
    /\ UNCHANGED <<distributions, quality, metrics>>

\* Variant: the file is also written before the consistency repair.
Save_early ==
    /\ pc \in {"consistency", "save"}
    /\ writes = 0
    /\ outDirExists' = TRUE
    /\ outExists' = TRUE
    /\ outFile' = to_csv(df)
    /\ outHeader' = columns
    /\ writes' = writes + 1
    /\ pc' = IF pc = "save" THEN "saved" ELSE pc
    /\ UNCHANGED <<run, df, rawExists, rawFile, report, rawHeader, columns, steps,
                   viz, prev>>
    /\ UNCHANGED <<distributions, quality, metrics>>

\* Variant: the file is opened in append mode.
Save_append ==
    /\ pc = "save"
    /\ outDirExists' = TRUE
    /\ outExists' = TRUE
    /\ outFile' = outFile \o to_csv(df)
    /\ outHeader' = columns
    /\ writes' = writes + 1
    /\ pc' = "saved"
    /\ UNCHANGED <<run, df, rawExists, rawFile, report, rawHeader, columns, steps,
                   viz, prev>>
    /\ UNCHANGED <<distributions, quality, metrics>>

\* 3. SAVE CLEANED DATA
Save ==
    /\ pc = "save"
    /\ outDirExists' = TRUE
    /\ outExists' = TRUE
    /\ outFile' = to_csv(df)
    /\ outHeader' = columns
    /\ writes' = writes + 1
    /\ pc' = "saved"
    /\ UNCHANGED <<run, df, rawExists, rawFile, report, rawHeader, columns, steps,
                   viz, prev>>
    /\ UNCHANGED <<distributions, quality, metrics>>

\* The script is started again with the file it wrote as its raw input.
Rerun ==
    /\ pc = "saved"
    /\ run < MaxRuns
    /\ run' = run + 1
    /\ rawFile' = outFile
    /\ rawHeader' = outHeader
    /\ df' = <<>>
    /\ columns' = <<>>
    /\ initial_nulls' = 0
    /\ invalid_types' = {}
    /\ records_removed' = 0
    /\ inconsistencies' = 0
    /\ steps' = <<>>
    /\ writes' = 0
    /\ pc' = "load"
    /\ UNCHANGED <<rawExists, outDirExists, outExists, outFile, outHeader, viz, prev>>
    /\ completion_dist' = Empty
    /\ reach_dist' = Empty
    /\ valid_dates' = 0
    /\ valid_call_dates' = 0
    /\ summary' = [original |-> 0, removed |-> 0, final |-> 0]
    /\ null_counts' = Empty
    /\ checks' = [types |-> TRUE, indicators |-> TRUE, consistency |-> TRUE,
                  dates |-> TRUE]
    /\ checks_passed' = TRUE
    /\ UNCHANGED metrics

\* The script is started again on the same raw file; what the finished run
\* produced is kept for comparison.
RerunSame ==
    /\ pc = "saved"
    /\ run < MaxRuns
    /\ run' = run + 1
    /\ prev' = {[out |-> outFile, header |-> outHeader, nulls |-> initial_nulls,
                 invalid |-> invalid_types, removed |-> records_removed,
                 repaired |-> inconsistencies]}
    /\ df' = <<>>
    /\ columns' = <<>>
    /\ initial_nulls' = 0
    /\ invalid_types' = {}
    /\ records_removed' = 0
    /\ inconsistencies' = 0
    /\ steps' = <<>>
    /\ writes' = 0
    /\ pc' = "load"
    /\ UNCHANGED <<files, headers, viz>>
    /\ completion_dist' = Empty
    /\ reach_dist' = Empty
    /\ valid_dates' = 0
    /\ valid_call_dates' = 0
    /\ summary' = [original |-> 0, removed |-> 0, final |-> 0]
    /\ null_counts' = Empty
    /\ checks' = [types |-> TRUE, indicators |-> TRUE, consistency |-> TRUE,
                  dates |-> TRUE]
    /\ checks_passed' = TRUE
    /\ UNCHANGED metrics

\* A report script runs once, when the cleaner has ended.  It aborts when the
\* cleaned file is missing or when its key metrics cannot be taken; only
\* then does it create its chart directory and save its charts.
report_outcome(ok) == IF outExists /\ ok THEN "saved" ELSE "aborted"

\* if not os.path.exists(OUTPUT_DIR): os.makedirs(OUTPUT_DIR), reached when
\* the report has not aborted.
makedirs(q, outcome) == [vizDir EXCEPT ![q] = @ \/ outcome = "saved"]

\* Variant: the chart directory is created before the metrics are taken.
RunQ1_makedirs_first ==
    /\ pc \in {"saved", "aborted"}
    /\ viz["q1"] = "none"
    /\ LET d == read_csv(outFile)
           outcome == report_outcome(q1_metrics_ok(d))
       IN /\ viz' = [viz EXCEPT !["q1"] = outcome]
          /\ vizDir' = [vizDir EXCEPT !["q1"] = outExists]
    /\ UNCHANGED <<cleaner, files, headers, prev, patient_metrics, total_patients,
                   patient_analysis, priority_matrix>>

\* 02_q1_reach_analysis.py
RunQ1 ==
    /\ pc \in {"saved", "aborted"}
    /\ viz["q1"] = "none"
    /\ LET d == read_csv(outFile)
           outcome == report_outcome(q1_metrics_ok(d))
       IN /\ viz' = [viz EXCEPT !["q1"] = outcome]
          /\ vizDir' = makedirs("q1", outcome)
    /\ UNCHANGED <<cleaner, files, headers, prev, patient_metrics, total_patients,
                   patient_analysis, priority_matrix>>

\* Variant: the report saves its eligible records over the cleaned file.
RunQ2_writes_back ==
    /\ pc \in {"saved", "aborted"}
    /\ viz["q2"] = "none"
    /\ LET d == read_csv(outFile)
           outcome == report_outcome(q2_metrics_ok(d))
       IN /\ viz' = [viz EXCEPT !["q2"] = outcome]
          /\ vizDir' = makedirs("q2", outcome)
          /\ outFile' = IF outExists THEN to_csv(eligible(d)) ELSE outFile
    /\ UNCHANGED <<cleaner, rawExists, rawFile, outDirExists, outExists, headers, prev,
                   patient_metrics, total_patients, patient_analysis, priority_matrix>>

\* 03_q2_compliance_eligibility.py
RunQ2 ==
    /\ pc \in {"saved", "aborted"}
    /\ viz["q2"] = "none"
    /\ LET d == read_csv(outFile)
           outcome == report_outcome(q2_metrics_ok(d))
       IN /\ viz' = [viz EXCEPT !["q2"] = outcome]
          /\ vizDir' = makedirs("q2", outcome)
          /\ IF outExists
             THEN /\ patient_metrics' = q2_patient_metrics(d)
                  /\ total_patients' = q2_total_patients(patient_metrics')
             ELSE UNCHANGED <<patient_metrics, total_patients>>
    /\ UNCHANGED <<cleaner, files, headers, prev, patient_analysis, priority_matrix>>

\* 04_q3_impact_of_contact.py
RunQ3 ==
    /\ pc \in {"saved", "aborted"}
    /\ viz["q3"] = "none"
    /\ LET d == read_csv(outFile)
           outcome == report_outcome(q3_metrics_ok(d))
       IN /\ viz' = [viz EXCEPT !["q3"] = outcome]
          /\ vizDir' = makedirs("q3", outcome)
    /\ UNCHANGED <<cleaner, files, headers, prev, patient_metrics, total_patients,
                   patient_analysis, priority_matrix>>

\* 05_q4_optimization_strategy.py
RunQ4 ==
    /\ pc \in {"saved", "aborted"}
    /\ viz["q4"] = "none"
    /\ LET d == read_csv(outFile)
           outcome == report_outcome(q4_metrics_ok(d))
       IN /\ viz' = [viz EXCEPT !["q4"] = outcome]
          /\ vizDir' = makedirs("q4", outcome)
          /\ IF outExists
             THEN /\ patient_analysis' = q4_patient_analysis(d)
                  /\ priority_matrix' = q4_priority_matrix(patient_analysis')
             ELSE UNCHANGED <<patient_analysis, priority_matrix>>
    /\ UNCHANGED <<cleaner, files, headers, prev, patient_metrics, total_patients>>

\* 4. DATA QUALITY SUMMARY
DataQualitySummary ==
    /\ pc = "saved"
    /\ summary' = [original |-> ORIGINAL_RECORDS, removed |-> records_removed,
                   final |-> Len(df)]
    /\ null_counts' = isnull_sum(df)
    /\ pc' = "validation"
    /\ UNCHANGED <<run, df, files, report, headers, columns, steps, writes, viz, prev,
                   distributions, checks, checks_passed, metrics>>

\* 5. VALIDATION CHECKS
ValidationChecks ==
    /\ pc = "validation"
    /\ checks' = validation_checks(df)
    /\ checks_passed' = (/\ checks'.types /\ checks'.indicators
                         /\ checks'.consistency /\ checks'.dates)
    /\ pc' = "done"
    /\ UNCHANGED <<run, df, files, report, headers, columns, steps, writes, viz, prev,
                   distributions, summary, null_counts, metrics>>

Next ==
    \/ LoadMissing
    \/ Load
    \/ ValidatePatientId
    \/ CleanScreeningTypeFails
    \/ CleanScreeningType
    \/ StandardizeCompleted
    \/ ConvertScreeningDate
    \/ ConvertCallDate
    \/ StandardizeReached
    \/ EnforceConsistency
    \/ Save
    \/ Rerun

Spec == Init /\ [][Next]_vars

\* Runs of the cleaner repeated on the same raw file.
NextSame ==
    \/ LoadMissing
    \/ Load
    \/ ValidatePatientId
    \/ CleanScreeningTypeFails
    \/ CleanScreeningType
    \/ StandardizeCompleted
    \/ ConvertScreeningDate
    \/ ConvertCallDate
    \/ StandardizeReached
    \/ EnforceConsistency
    \/ Save
    \/ RerunSame

SpecSame == Init /\ [][NextSame]_vars

\* One run of the cleaner followed by the reports, in any order and any
\* number of times.
NextPipeline ==
    \/ LoadMissing
    \/ Load
    \/ ValidatePatientId
    \/ CleanScreeningTypeFails
    \/ CleanScreeningType
    \/ StandardizeCompleted
    \/ ConvertScreeningDate
    \/ ConvertCallDate
    \/ StandardizeReached
    \/ EnforceConsistency
    \/ Save
    \/ RunQ1
    \/ RunQ2
    \/ RunQ3
    \/ RunQ4

SpecPipeline == Init /\ [][NextPipeline]_vars

\* One complete run of the cleaner: the cleaning steps, the save, the
\* data-quality summary and the validation checks.
NextSummary ==
    \/ LoadMissing
    \/ Load
    \/ ValidatePatientId
    \/ CleanScreeningTypeFails
    \/ CleanScreeningType
    \/ StandardizeCompleted
    \/ ConvertScreeningDate
    \/ ConvertCallDate
    \/ StandardizeReached
    \/ EnforceConsistency
    \/ Save
    \/ DataQualitySummary
    \/ ValidationChecks

SpecSummary == Init /\ [][NextSummary]_vars

\* The cleaner and the reports on raw files with several patients and up to
\* MaxRecords records.
InitReports ==
    /\ pc = "load"
    /\ run = 1
    /\ rawExists \in BOOLEAN
    /\ rawFile \in ReportRawTables
    /\ (~rawExists => rawFile = <<>>)
    /\ df = <<>>
    /\ initial_nulls = 0
    /\ invalid_types = {}
    /\ records_removed = 0
    /\ inconsistencies = 0
    /\ outDirExists = FALSE
    /\ outExists = FALSE
    /\ outFile = <<>>
    /\ rawHeader = RawHeader
    /\ columns = <<>>
    /\ outHeader = <<>>
    /\ steps = <<>>
    /\ writes = 0
    /\ viz = [q \in Reports |-> "none"]
    /\ prev = {}
    /\ NoDistributions
    /\ NoQuality
    /\ NoMetrics

SpecReports == InitReports /\ [][NextPipeline]_vars

\* ================================================================ properties
\* The frame as it was loaded by the current run.
Loaded == read_csv(rawFile)

\* The record of the loaded frame that row i of the current frame comes from.
Origin(i) == Loaded[df[i].idx]

AllowedTexts == {"BCS", "COL", "EED", "CBP", "OMW"}
CompletionTexts == {"completed", "not completed", "not eligible"}
ContactTexts == {"reached", "not reached", "not called"}

\* Number of loaded records whose trimmed, upper-cased screening_type is
\* not an allowed one.
Disallowed ==
    {j \in 1..Len(Loaded) :
        ~(Loaded[j].screening_type.k = "str"
          /\ upper(strip(Loaded[j].screening_type.s)) \in AllowedTexts)}

\* C1: every record of the written file has a screening_type in
\* {BCS, COL, EED, CBP, OMW}; null and any other value never appear.
C1_OutputTypesAllowed ==
    outExists => \A i \in 1..Len(outFile) :
                    outFile[i].screening_type \in AllowedTexts

\* C1 witness: a file was written from a table that held a null and an
\* 'a1c' screening type.
C1_Witness ==
    /\ pc = "saved" /\ run = 1
    /\ invalid_types = {NaN, Str("A1C")}

\* C2: in the written file the completion column holds one of the three
\* completion labels and the contact column one of the three contact labels.
C2_OutputLabels ==
    outExists => \A i \in 1..Len(outFile) :
                    /\ outFile[i].screening_completed_ind \in CompletionTexts
                    /\ outFile[i].reached_ind \in ContactTexts

\* C2 witness: a written table whose raw indicators were garbage and null.
C2_Witness ==
    /\ pc = "saved" /\ run = 1
    /\ \E i, j \in 1..Len(df) :
          /\ rawFile[df[i].idx].screening_completed_ind = "x"
          /\ rawFile[df[j].idx].reached_ind = ""

\* C3: in the written file every 'not called' record has an empty
\* latest_call_date.
C3_NotCalledHasNoDate ==
    outExists => \A i \in 1..Len(outFile) :
                    outFile[i].reached_ind = "not called"
                        => outFile[i].latest_call_date = ""

\* C3 witness: a written table in which a 'not called' record came with a
\* valid call date.
C3_Witness ==
    /\ pc = "saved" /\ run = 1
    /\ \E i \in 1..Len(df) :
          /\ outFile[i].reached_ind = "not called"
          /\ rawFile[df[i].idx].latest_call_date = "2025-03-01"

\* C4 as stated: a run on the file the previous run wrote writes an
\* identical file, drops no record and repairs nothing.
C4_Idempotent ==
    (pc = "saved" /\ run >= 2) =>
        /\ outFile = rawFile
        /\ records_removed = 0
        /\ inconsistencies = 0

\* C4 amended: a run on the file the previous run wrote drops no record and
\* keeps every record's patient_id, screening_type and screening_date, but
\* sets every completion status to 'not eligible', every contact status to
\* 'not called' and clears every latest_call_date; its repaired count is
\* the number of records that came with a latest_call_date.
C4_RerunResetsIndicators ==
    (pc = "saved" /\ run >= 2) =>
        /\ Len(outFile) = Len(rawFile)
        /\ records_removed = 0
        /\ \A i \in 1..Len(outFile) :
              /\ outFile[i].patient_id = rawFile[i].patient_id
              /\ outFile[i].screening_type = rawFile[i].screening_type
              /\ outFile[i].screening_date = rawFile[i].screening_date
              /\ outFile[i].screening_completed_ind = "not eligible"
              /\ outFile[i].reached_ind = "not called"
              /\ outFile[i].latest_call_date = ""
        /\ inconsistencies =
              Cardinality({i \in 1..Len(rawFile) : rawFile[i].latest_call_date # ""})

\* C4 witness: the second run has written its file, from a first output
\* with a completed, reached record that had both dates.
C4_Witness ==
    /\ pc = "saved" /\ run = 2
    /\ \E i \in 1..Len(rawFile) :
          /\ rawFile[i].screening_completed_ind = "completed"
          /\ rawFile[i].reached_ind = "reached"
          /\ rawFile[i].screening_date = "2025-03-01"
          /\ rawFile[i].latest_call_date = "2025-03-01"

C6_OnlyTypeFilterRemoves ==
    pc = "saved" =>
        /\ \A j \in 1..Len(Loaded) :
              j \notin Disallowed =>
                  \E i \in 1..Len(df) :
                      /\ df[i].idx = j
                      /\ outFile[i].patient_id = rawFile[j].patient_id
        /\ initial_nulls =
              Cardinality({j \in 1..Len(Loaded) : Loaded[j].patient_id = NaN})

\* C6 witness: a written table holding a record without patient id and a
\* record with an unmappable indicator or unparsable date.
C6_Witness ==
    /\ pc = "saved" /\ run = 1
    /\ initial_nulls = 1
    /\ \E i, j \in 1..Len(outFile) :
          /\ outFile[i].patient_id = ""
          /\ \/ rawFile[df[j].idx].screening_completed_ind = "x"
             \/ rawFile[df[j].idx].reached_ind = "x"
             \/ rawFile[df[j].idx].screening_date = "03/01/2025"

\* The steps after which the completion and the contact column are final.
AfterCompleted ==
    pc \in {"screening_date", "latest_call_date", "reached_ind",
            "consistency", "save", "saved"}
AfterReached == pc \in {"consistency", "save", "saved"}

\* The literals of the two lookup tables, by the number they stand for.
ZeroLiterals == {Str("0"), Str("0.0"), Num(0)}
OneLiterals == {Str("1"), Str("1.0"), Num(1)}
CompletionOnes == OneLiterals \cup {Str("s"), Str("S")}
ReachOnes == OneLiterals \cup {Str("1 and reached")}

\* A text that is no literal of the tables but still parses as the number n.
ParsesAs(v, n) ==
    /\ v.k = "str"
    /\ v \notin ZeroLiterals \cup OneLiterals
    /\ v.s \in DOMAIN NumericTexts
    /\ NumericTexts[v.s] = n

\* C7 as stated: a literal for 0 gives 'not completed', a literal for 1
\* (also 's', 'S') gives 'completed', every other loaded value gives
\* 'not eligible'.
C7_CompletionByTableOnly ==
    AfterCompleted => \A i \in 1..Len(df) :
        LET v == Origin(i).screening_completed_ind
            l == df[i].screening_completed_ind
        IN /\ v \in ZeroLiterals => l = Str("not completed")
           /\ v \in CompletionOnes => l = Str("completed")
           /\ v \notin ZeroLiterals \cup CompletionOnes => l = Str("not eligible")

\* C7 amended: a literal for 0 gives 'not completed', a literal for 1 (also
\* 's', 'S') gives 'completed'; a text outside the table that parses as the
\* number 1 (such as '1.00') gives 'completed' and one that parses as 0
\* gives 'not completed'; every other value, null included, gives
\* 'not eligible'.
C7_CompletionMapping ==
    AfterCompleted => \A i \in 1..Len(df) :
        LET v == Origin(i).screening_completed_ind
            l == df[i].screening_completed_ind
        IN /\ (v \in ZeroLiterals \/ ParsesAs(v, 0)) => l = Str("not completed")
           /\ (v \in CompletionOnes \/ ParsesAs(v, 1)) => l = Str("completed")
           /\ ~(v \in ZeroLiterals \cup CompletionOnes
                \/ ParsesAs(v, 0) \/ ParsesAs(v, 1)) => l = Str("not eligible")

\* C7 witness: the completion step has mapped an 's' and a '1.00' to
\* 'completed'.
C7_Witness ==
    /\ AfterCompleted
    /\ \E i, j \in 1..Len(df) :
          /\ Origin(i).screening_completed_ind = Str("s")
          /\ df[i].screening_completed_ind = Str("completed")
          /\ Origin(j).screening_completed_ind = Str("1.00")
          /\ df[j].screening_completed_ind = Str("completed")

\* C8 as stated: a literal for 0 gives 'not reached', a literal for 1 or
\* '1 and reached' gives 'reached', every other loaded value gives
\* 'not called'.
C8_ContactByTableOnly ==
    AfterReached => \A i \in 1..Len(df) :
        LET v == Origin(i).reached_ind
            l == df[i].reached_ind
        IN /\ v \in ZeroLiterals => l = Str("not reached")
           /\ v \in ReachOnes => l = Str("reached")
           /\ v \notin ZeroLiterals \cup ReachOnes => l = Str("not called")

\* C8 amended: a literal for 0 gives 'not reached', a literal for 1 or
\* '1 and reached' gives 'reached'; a text outside the table that parses as
\* the number 0 (such as '0.00') gives 'not reached' and one that parses as
\* 1 gives 'reached'; every other value, null included, gives 'not called'.
C8_ContactMapping ==
    AfterReached => \A i \in 1..Len(df) :
        LET v == Origin(i).reached_ind
            l == df[i].reached_ind
        IN /\ (v \in ZeroLiterals \/ ParsesAs(v, 0)) => l = Str("not reached")
           /\ (v \in ReachOnes \/ ParsesAs(v, 1)) => l = Str("reached")
           /\ ~(v \in ZeroLiterals \cup ReachOnes
                \/ ParsesAs(v, 0) \/ ParsesAs(v, 1)) => l = Str("not called")

\* C8 witness: the contact step has mapped '1 and reached' to 'reached' and
\* a '0.00' to 'not reached'.
C8_Witness ==
    /\ AfterReached
    /\ \E i, j \in 1..Len(df) :
          /\ Origin(i).reached_ind = Str("1 and reached")
          /\ df[i].reached_ind = Str("reached")
          /\ Origin(j).reached_ind = Str("0.00")
          /\ df[j].reached_ind = Str("not reached")

\* A raw row of the first run with reached_ind "0" and call date 2025-03-01.
ZeroWithDate(i) ==
    /\ rawFile[df[i].idx].reached_ind = "0"
    /\ rawFile[df[i].idx].latest_call_date = "2025-03-01"

\* C9 as stated: a raw row with reached_ind "0" and latest_call_date
\* "2025-03-01" is written as 'not called' with an empty latest_call_date.
C9_ZeroIsNotCalled ==
    (pc = "saved" /\ run = 1) => \A i \in 1..Len(df) :
        ZeroWithDate(i) =>
            /\ outFile[i].reached_ind = "not called"
            /\ outFile[i].latest_call_date = ""

\* C9 amended: a raw row with reached_ind "0" and latest_call_date
\* "2025-03-01" is written as 'not reached' and keeps its latest_call_date
\* 2025-03-01.
C9_ZeroIsNotReached ==
    (pc = "saved" /\ run = 1) => \A i \in 1..Len(df) :
        ZeroWithDate(i) =>
            /\ outFile[i].reached_ind = "not reached"
            /\ outFile[i].latest_call_date = "2025-03-01"

\* C9 witness: such a row has been written.
C9_Witness ==
    /\ pc = "saved" /\ run = 1
    /\ \E i \in 1..Len(df) : ZeroWithDate(i)

\* C10: the repair clears the date of every record that is 'not called'
\* with a date, leaves that record 'not called', and counts exactly the
\* records that were 'not called' with a date before it.
C10_Repair ==
    [][pc = "consistency" =>
        /\ Len(df') = Len(df)
        /\ \A i \in 1..Len(df) :
              (df[i].reached_ind = Str("not called") /\ df[i].latest_call_date # NaN)
                 => /\ df'[i].latest_call_date = NaN
                    /\ df'[i].reached_ind = Str("not called")
        /\ inconsistencies' =
              Cardinality({i \in 1..Len(df) :
                  /\ df[i].reached_ind = Str("not called")
                  /\ df[i].latest_call_date # NaN})]_vars

\* C10 witness: the repair has cleared one record of two, the other being
\* 'not called' without a date.
C10_Witness ==
    /\ pc = "save" /\ run = 1
    /\ inconsistencies = 1
    /\ Len(df) = 2
    /\ \A i \in 1..2 : df[i].reached_ind = Str("not called")
    /\ \E i \in 1..2 : rawFile[df[i].idx].latest_call_date = ""

\* Raw rows of the current run whose screening_type is 'a1c', bare or
\* surrounded by whitespace, and those whose screening_type is empty.
A1cRows == {j \in 1..Len(rawFile) : rawFile[j].screening_type \in {"a1c", " a1c "}}
NullTypeRows == {j \in 1..Len(rawFile) : rawFile[j].screening_type = ""}

\* C11: every raw row with screening_type 'a1c' is left out of the output
\* and counts once in records_removed (the other removed rows being those
\* without a type); the value rejected is the trimmed, upper-cased 'A1C'.
C11_A1cRejected ==
    (pc = "saved" /\ run = 1 /\ A1cRows # {}) =>
        /\ \A j \in A1cRows : ~(\E i \in 1..Len(df) : df[i].idx = j)
        /\ \A i \in 1..Len(outFile) : outFile[i].screening_type \notin {"A1C", "a1c", " a1c "}
        /\ records_removed = Cardinality(A1cRows) + Cardinality(NullTypeRows)
        /\ Str("A1C") \in invalid_types
        /\ invalid_types \subseteq {Str("A1C"), NaN}

\* C11 witness: a table with an 'a1c' and an ' a1c ' row has been cleaned.
C11_Witness ==
    /\ pc = "saved" /\ run = 1
    /\ \E i, j \in A1cRows : rawFile[i].screening_type # rawFile[j].screening_type
    /\ records_removed = 2

\* C12: a raw row with screening_completed_ind 's' or 'S' and an allowed
\* screening_type is written as 'completed'.
C12_SIsCompleted ==
    (pc = "saved" /\ run = 1) => \A i \in 1..Len(df) :
        rawFile[df[i].idx].screening_completed_ind \in {"s", "S"}
            => outFile[i].screening_completed_ind = "completed"

\* C12 witness: an 's' row and an 'S' row have been written.
C12_Witness ==
    /\ pc = "saved" /\ run = 1
    /\ \E i, j \in 1..Len(df) :
          /\ rawFile[df[i].idx].screening_completed_ind = "s"
          /\ rawFile[df[j].idx].screening_completed_ind = "S"

\* C13: a date text that is no YYYY-MM-DD date is written as an empty date,
\* an unmapped indicator as its default label, and a run aborts only when
\* the raw file is missing or no screening_type is a text, never because
\* of a date or an indicator.
C13_MalformedDegrades ==
    /\ (pc = "saved" /\ run = 1) => \A i \in 1..Len(df) :
          LET r == rawFile[df[i].idx] IN
          /\ r.screening_date # "2025-03-01" => outFile[i].screening_date = ""
          /\ r.latest_call_date # "2025-03-01" => outFile[i].latest_call_date = ""
          /\ r.screening_completed_ind \in {"", "x", "2"}
                => outFile[i].screening_completed_ind = "not eligible"
          /\ r.reached_ind \in {"", "x", "2"} => outFile[i].reached_ind = "not called"
    /\ pc = "aborted" =>
          \/ ~rawExists
          \/ /\ Len(rawFile) > 0
             /\ \A j \in 1..Len(rawFile) : rawFile[j].screening_type = ""

\* C13 witness: a table with an unparsable screening_date and an unmapped
\* reached_ind has been written.
C13_Witness ==
    /\ pc = "saved" /\ run = 1
    /\ \E i, j \in 1..Len(df) :
          /\ rawFile[df[i].idx].screening_date = "03/01/2025"
          /\ rawFile[df[j].idx].reached_ind = "x"

\* C14: when the raw file is missing the run only aborts: nothing is read,
\* no step runs, and neither the output file nor its directory is created.
C14_MissingFileAborts ==
    ~rawExists =>
        /\ pc \in {"load", "aborted"}
        /\ df = <<>> /\ columns = <<>>
        /\ steps = <<>>
        /\ writes = 0
        /\ ~outExists /\ ~outDirExists /\ outFile = <<>>

\* C14 witness: the run has aborted on the missing file.
C14_Witness == pc = "aborted" /\ ~rawExists

\* The steps of STEP 2 in the order of the script.
StepOrder ==
    <<"patient_id", "screening_type", "completed_ind", "screening_date",
      "latest_call_date", "reached_ind", "consistency">>

\* C15: a run writes the file at most once, and when it has written it all
\* seven steps are done and the file holds every row of the normalized
\* frame; a finished run has written once, an aborted run not at all.
C15_AllOrNothing ==
    /\ writes <= 1
    /\ writes = 1 =>
          /\ pc = "saved"
          /\ steps = StepOrder
          /\ Len(outFile) = Len(df)
          /\ outFile = to_csv(df)
    /\ pc = "saved" => writes = 1
    /\ pc = "aborted" => (writes = 0 /\ ~outExists)

\* C15 witness: the second run has written its two-row file.
C15_Witness ==
    /\ pc = "saved" /\ run = 2
    /\ writes = 1
    /\ Len(outFile) = 2

\* C16: the finished steps are always an initial part of the order
\* patient_id, screening_type, completion, screening_date, latest_call_date,
\* contact, consistency; the repair starts after the other six, on parsed
\* call dates and final contact labels; the file is written after all seven.
C16_StepOrder ==
    /\ Len(steps) <= 7
    /\ \A k \in 1..Len(steps) : steps[k] = StepOrder[k]
    /\ pc = "consistency" =>
          /\ Len(steps) = 6
          /\ \A i \in 1..Len(df) :
                /\ df[i].latest_call_date.k \in {"date", "nan"}
                /\ df[i].reached_ind \in {Str("reached"), Str("not reached"), Str("not called")}
    /\ pc \in {"save", "saved"} => steps = StepOrder

\* C16 witness: the repair is about to run on a 'not called' record with a
\* parsed call date.
C16_Witness ==
    /\ pc = "consistency"
    /\ \E i \in 1..Len(df) :
          /\ df[i].reached_ind = Str("not called")
          /\ df[i].latest_call_date = Date("2025-03-01")

\* C17: the written file has the six columns of the raw header, same names
\* and order, and its indicator columns hold the label texts the reports
\* compare with.
C17_ColumnsAndLabels ==
    outExists =>
        /\ outHeader = <<"patient_id", "screening_type", "screening_completed_ind",
                         "screening_date", "latest_call_date", "reached_ind">>
        /\ outHeader = rawHeader
        /\ \A i \in 1..Len(outFile) :
              /\ outFile[i].screening_completed_ind
                    \in {COMPLETED, "not completed", NOT_ELIGIBLE}
              /\ outFile[i].reached_ind \in {REACHED, NOT_REACHED, NOT_CALLED}

\* C17 witness: a file with a 'not completed' and a 'not reached' record has
\* been written.
C17_Witness ==
    /\ pc = "saved" /\ run = 1
    /\ \E i, j \in 1..Len(outFile) :
          /\ outFile[i].screening_completed_ind = "not completed"
          /\ outFile[j].reached_ind = "not reached"

\* C18: once the cleaner has written the file, no run of a report changes
\* the file, its header or its existence.
C18_ReportsOnlyRead ==
    [][(pc = "saved" /\ outExists) =>
          /\ outFile' = outFile
          /\ outHeader' = outHeader
          /\ outExists']_vars

\* C18 witness: Q2 has saved its charts and the other reports have aborted,
\* on a written file that holds a 'not eligible' record.
C18_Witness ==
    /\ pc = "saved"
    /\ viz = [q \in Reports |-> IF q = "q2" THEN "saved" ELSE "aborted"]
    /\ \E i \in 1..Len(outFile) : outFile[i].screening_completed_ind = "not eligible"

\* C19: a run on the raw file of the run before it writes the same file and
\* reports the same null count, rejected set, removed count and repaired
\* count.
C19_Deterministic ==
    (pc = "saved" /\ prev # {}) =>
        prev = {[out |-> outFile, header |-> outHeader, nulls |-> initial_nulls,
                 invalid |-> invalid_types, removed |-> records_removed,
                 repaired |-> inconsistencies]}

\* C19 witness: the second run on the same raw file has written, after
\* removing one record and repairing the other.
C19_Witness ==
    /\ pc = "saved" /\ run = 2 /\ prev # {}
    /\ records_removed = 1
    /\ inconsistencies = 1

\* The normalized screening_type of a loaded record.
NormalizedType(j) ==
    IF Loaded[j].screening_type.k = "str"
    THEN Str(upper(strip(Loaded[j].screening_type.s)))
    ELSE NaN

\* C20: after the screening-type step the rejected set is the set of the
\* distinct normalized screening_type values of the removed records, and it
\* is non-empty exactly when a record was removed.
C20_RejectedSet ==
    (Len(steps) >= 2) =>
        /\ invalid_types = {NormalizedType(j) : j \in Disallowed}
        /\ (invalid_types # {}) <=> (records_removed > 0)

\* C20 witness: two records with the same normalized type 'A1C' have been
\* removed.
C20_Witness ==
    /\ pc = "completed_ind" /\ run = 1
    /\ records_removed = 2
    /\ invalid_types = {Str("A1C")}

\* The canonical form of the raw screening types that are an allowed value
\* up to letter case and surrounding blanks.
CanonicalType == ("BCS" :> "BCS") @@ (" col " :> "COL") @@ ("COL" :> "COL")

\* C22: a raw record whose screening_type is an allowed value up to letter
\* case and surrounding blanks is in the written file, with the trimmed
\* upper-case value as its screening_type.
C22_CaseAndBlanksTolerated ==
    pc = "saved" => \A j \in 1..Len(rawFile) :
        rawFile[j].screening_type \in DOMAIN CanonicalType =>
            \E i \in 1..Len(df) :
                /\ df[i].idx = j
                /\ outFile[i].screening_type = CanonicalType[rawFile[j].screening_type]

\* C22 witness: a ' col ' record has been written as 'COL'.
C22_Witness ==
    /\ pc = "saved" /\ run = 1
    /\ \E i \in 1..Len(df) :
          /\ rawFile[df[i].idx].screening_type = " col "
          /\ outFile[i].screening_type = "COL"

\* The raw texts that are a calendar date in the form YYYY-MM-DD.
ValidDateTexts == {"2025-03-01"}

\* C23: in the written file screening_date is the raw text when that is a
\* YYYY-MM-DD date and empty otherwise; latest_call_date is the raw text
\* when that is a YYYY-MM-DD date and the record is not 'not called', and
\* empty otherwise.
C23_StrictDates ==
    pc = "saved" => \A i \in 1..Len(df) :
        LET r == rawFile[df[i].idx] IN
        /\ outFile[i].screening_date =
              IF r.screening_date \in ValidDateTexts THEN r.screening_date ELSE ""
        /\ outFile[i].latest_call_date =
              IF /\ r.latest_call_date \in ValidDateTexts
                 /\ outFile[i].reached_ind # "not called"
              THEN r.latest_call_date ELSE ""

\* C23 witness: a file has been written from a record with a valid
\* screening_date and a record with a month/day/year screening_date.
C23_Witness ==
    /\ pc = "saved" /\ run = 1
    /\ \E i, j \in 1..Len(df) :
          /\ rawFile[df[i].idx].screening_date = "2025-03-01"
          /\ outFile[i].screening_date = "2025-03-01"
          /\ rawFile[df[j].idx].screening_date = "03/01/2025"
          /\ outFile[j].screening_date = ""

\* C24: the repair keeps the number and the order of the records, every
\* record's patient_id, screening_type, completion status, screening_date
\* and contact status, and the latest_call_date of every 'reached' and
\* 'not reached' record.
C24_RepairFrame ==
    [][pc = "consistency" =>
        /\ Len(df') = Len(df)
        /\ \A i \in 1..Len(df) :
              /\ df'[i].idx = df[i].idx
              /\ df'[i].patient_id = df[i].patient_id
              /\ df'[i].screening_type = df[i].screening_type
              /\ df'[i].screening_completed_ind = df[i].screening_completed_ind
              /\ df'[i].screening_date = df[i].screening_date
              /\ df'[i].reached_ind = df[i].reached_ind
              /\ df[i].reached_ind \in {Str("reached"), Str("not reached")}
                    => df'[i].latest_call_date = df[i].latest_call_date]_vars

\* C24 witness: the repair has cleared one record and left a 'not reached'
\* record with its call date.
C24_Witness ==
    /\ pc = "save" /\ run = 1
    /\ inconsistencies = 1
    /\ \E i \in 1..Len(df) :
          /\ df[i].reached_ind = Str("not reached")
          /\ df[i].latest_call_date = Date("2025-03-01")

\* C25: the records of the written file are the loaded records with an
\* allowed screening_type, each once and in the order of the raw file.
C25_OrderKept ==
    pc = "saved" =>
        /\ Len(outFile) = Len(df)
        /\ \A i, k \in 1..Len(df) : i < k => df[i].idx < df[k].idx
        /\ {df[i].idx : i \in 1..Len(df)} = (1..Len(Loaded)) \ Disallowed
        /\ \A i \in 1..Len(df) :
              /\ outFile[i].patient_id = rawFile[df[i].idx].patient_id
              /\ rawFile[df[i].idx].screening_type \in DOMAIN CanonicalType
              /\ outFile[i].screening_type
                    = CanonicalType[rawFile[df[i].idx].screening_type]

\* C25 witness: two different records have been written in the order of the
\* raw file.
C25_Witness ==
    /\ pc = "saved" /\ run = 1
    /\ Len(outFile) = 2
    /\ rawFile[1].patient_id = "" /\ rawFile[2].patient_id = "P1"
    /\ rawFile[1].screening_type # rawFile[2].screening_type
    /\ outFile[1].patient_id = ""

\* The summary and the validation checks have been printed.
Summarized == pc \in {"validation", "done"}

\* The raw record that row i of the frame comes from.
RawOf(i) == rawFile[df[i].idx]

\* Raw indicator texts that are neither a literal of the lookup tables nor
\* a number text for 0 or 1.
Uncoercible == {"", "2", "x"}

\* The count a value_counts series reports for a label.
Reported(dist, l) == IF l \in DOMAIN dist THEN dist[l] ELSE 0

\* Numbers of output records whose raw value of a field was defaulted, and
\* of those whose valid call date belongs to a record without contact.
DefaultedCompleted ==
    Cardinality({i \in 1..Len(df) : RawOf(i).screening_completed_ind \in Uncoercible})
DefaultedReached ==
    Cardinality({i \in 1..Len(df) : RawOf(i).reached_ind \in Uncoercible})
DefaultedScreeningDate ==
    Cardinality({i \in 1..Len(df) : RawOf(i).screening_date \notin ValidDateTexts})
DefaultedCallDate ==
    Cardinality({i \in 1..Len(df) : RawOf(i).latest_call_date \notin ValidDateTexts})
ClearedCallDate ==
    Cardinality({i \in 1..Len(df) :
        /\ RawOf(i).latest_call_date \in ValidDateTexts
        /\ RawOf(i).reached_ind \in Uncoercible})

\* C21 as stated: the run reports, per field, the number of output records
\* whose value was defaulted: 'not eligible' and 'not called' in the two
\* distributions, and the missing count of each date column.
C21_DefaultsCounted ==
    Summarized =>
        /\ Reported(completion_dist, "not eligible") = DefaultedCompleted
        /\ Reported(reach_dist, "not called") = DefaultedReached
        /\ null_counts["screening_date"] = DefaultedScreeningDate
        /\ null_counts["latest_call_date"] = DefaultedCallDate

\* C21 amended: the same for the two indicators and screening_date; for
\* latest_call_date the number of dates that could not be parsed is the
\* record count minus the valid call dates reported by step 2.5, and the
\* missing count of the summary is that number plus the number of valid
\* dates the consistency repair cleared.
C21_DefaultsAndRepairsCounted ==
    Summarized =>
        /\ Reported(completion_dist, "not eligible") = DefaultedCompleted
        /\ Reported(reach_dist, "not called") = DefaultedReached
        /\ null_counts["screening_date"] = DefaultedScreeningDate
        /\ Len(df) - valid_dates = DefaultedScreeningDate
        /\ Len(df) - valid_call_dates = DefaultedCallDate
        /\ null_counts["latest_call_date"] = DefaultedCallDate + ClearedCallDate

\* C21 witness: the summary of a run that defaulted an unparsable call date
\* and cleared a valid one.
C21_Witness ==
    /\ Summarized
    /\ DefaultedCallDate = 1
    /\ ClearedCallDate = 1
    /\ null_counts["latest_call_date"] = 2

\* C26: when the validation checks have run, the checks of the screening
\* types, of the indicator labels and of the consistency have passed, and
\* checks_passed is the result of the date-dtype check.
C26_ChecksPass ==
    pc = "done" =>
        /\ checks.types
        /\ checks.indicators
        /\ checks.consistency
        /\ checks_passed = checks.dates

\* C26 witness: the checks have run after a run that removed a record and
\* repaired the other, which came with an unmapped contact value.
C26_Witness ==
    /\ pc = "done"
    /\ records_removed = 1
    /\ inconsistencies = 1
    /\ \E i \in 1..Len(df) : RawOf(i).reached_ind = "x"

\* C27: the summary's original records minus its removed records are its
\* final records.
C27_SummaryAddsUp ==
    Summarized => summary.original - summary.removed = summary.final

\* The contact labels of the written file, and those of its records that
\* are not 'not eligible'.
FileLabels == {outFile[i].reached_ind : i \in 1..Len(outFile)}
EligibleRecords ==
    {i \in 1..Len(outFile) : outFile[i].screening_completed_ind # "not eligible"}
EligibleLabels == {outFile[i].reached_ind : i \in EligibleRecords}

\* C28: Q1 run on a file that lacks one of the three contact labels, and Q3
\* run on a file whose eligible records lack one, has aborted and has not
\* created its chart directory.
C28_MissingLabelAborts ==
    outExists =>
        /\ (viz["q1"] # "none" /\ FileLabels # ContactTexts)
              => (viz["q1"] = "aborted" /\ ~vizDir["q1"])
        /\ (viz["q3"] # "none" /\ EligibleLabels # ContactTexts)
              => (viz["q3"] = "aborted" /\ ~vizDir["q3"])

\* C28 witness: the file holds all three labels, one of them only on a
\* 'not eligible' record; Q1 has saved its charts and Q3 has aborted.
C28_Witness ==
    /\ outExists
    /\ FileLabels = ContactTexts
    /\ EligibleLabels # ContactTexts
    /\ viz["q1"] = "saved" /\ vizDir["q1"]
    /\ viz["q3"] = "aborted" /\ ~vizDir["q3"]

\* The patients of the written file with at least one eligible record.
EligiblePatients == {outFile[i].patient_id : i \in EligibleRecords} \ {""}

\* The eligible records of a patient.
RecordsOf(p) == {i \in EligibleRecords : outFile[i].patient_id = p}

\* The sum of a table of counts.
RECURSIVE SumOver(_, _)
SumOver(f, S) ==
    IF S = {} THEN 0
    ELSE LET x == CHOOSE y \in S : TRUE IN f[x] + SumOver(f, S \ {x})

\* C29: when Q2 has read the file, patient_metrics has one entry per
\* patient with an eligible record and none for any other patient; each
\* entry has 1 <= total_eligible_screenings, the number of the patient's
\* eligible records, and completed_screenings <= total_eligible_screenings;
\* total_patients sums to the number of these patients.
C29_PatientMetrics ==
    (outExists /\ viz["q2"] # "none") =>
        /\ DOMAIN patient_metrics = {Str(p) : p \in EligiblePatients}
        /\ \A p \in EligiblePatients :
              /\ patient_metrics[Str(p)].total_eligible_screenings
                    = Cardinality(RecordsOf(p))
              /\ patient_metrics[Str(p)].total_eligible_screenings >= 1
              /\ patient_metrics[Str(p)].completed_screenings
                    <= patient_metrics[Str(p)].total_eligible_screenings
        /\ SumOver(total_patients, DOMAIN total_patients)
              = Cardinality(EligiblePatients)

\* C29 witness: Q2 has saved its charts on a file of two patients, one of
\* them without an eligible record.
C29_Witness ==
    /\ viz["q2"] = "saved"
    /\ DOMAIN patient_metrics = {Str("P1")}
    /\ patient_metrics[Str("P1")].total_eligible_screenings = 2
    /\ patient_metrics[Str("P1")].completed_screenings = 1
    /\ \E i \in 1..Len(outFile) : outFile[i].patient_id = "P2"

\* The contact labels in alphabetical order.
LabelsSorted == <<"not called", "not reached", "reached">>

\* Number of eligible records of patient p with the k-th label.
Frequency(p, k) ==
    Cardinality({i \in RecordsOf(p) : outFile[i].reached_ind = LabelsSorted[k]})

\* C30: when Q4 has read the file, patient_analysis has one entry per
\* patient with an eligible record; its reached_status is a most frequent
\* contact label of the patient's eligible records and the alphabetically
\* first of the most frequent ones; the patient counts of priority_matrix
\* sum to the number of these patients, each patient being in the one
\* segment of its reached_status and total_eligible_screenings.
C30_ReachStatus ==
    (outExists /\ viz["q4"] # "none") =>
        /\ DOMAIN patient_analysis = {Str(p) : p \in EligiblePatients}
        /\ \A p \in EligiblePatients :
              \E k \in 1..3 :
                  /\ patient_analysis[Str(p)].reached_status = LabelsSorted[k]
                  /\ \A m \in 1..3 : Frequency(p, m) <= Frequency(p, k)
                  /\ \A m \in 1..3 : Frequency(p, m) = Frequency(p, k) => k <= m
                  /\ <<LabelsSorted[k], Cardinality(RecordsOf(p))>>
                        \in DOMAIN priority_matrix
        /\ SumOver(priority_matrix, DOMAIN priority_matrix)
              = Cardinality(EligiblePatients)

\* C30 witness: Q4 has read a file of two patients with eligible records;
\* one of them has a 'reached' record before a 'not reached' record, a tie
\* resolved to 'not reached'.
C30_Witness ==
    /\ outExists /\ viz["q4"] # "none"
    /\ Cardinality(DOMAIN patient_analysis) = 2
    /\ patient_analysis[Str("P1")].reached_status = "not reached"
    /\ \E i, j \in RecordsOf("P1") :
          /\ i < j
          /\ outFile[i].reached_ind = "reached"
          /\ outFile[j].reached_ind = "not reached"
    /\ Cardinality(RecordsOf("P1")) = 2

====
